---- MODULE Spec2Model ----
(***************************************************************************)
(* Model of the LLM provider layer of vibe-zotero-translate               *)
(* (modules/llm-service.ts: getStringPref, getConfig, buildSystemPrompt,   *)
(* buildBedrockBody, callBedrock, buildOpenAIBody, callOpenAI, callModel,  *)
(* translateText, testConnection).                                         *)
(*                                                                         *)
(* Strings are sequences.  An element is either one character ("a", " ",   *)
(* "\n") or an opaque literal fragment of the source text (for instance    *)
(* "Bedrock API error (").  A fragment stands for characters that contain  *)
(* none of the substrings the code searches for and that the code never    *)
(* trims, so includes/trim/endsWith are computed on the characters.        *)
(* A value that may be null or undefined is a sequence of length 0 (null)  *)
(* or of length 1 (the value).                                             *)
(*                                                                         *)
(* Besides the provider layer the model holds what its callers keep        *)
(* (modules/translate.ts: the last selection, the popup of each            *)
(* translation; modules/wordbook: the saved words), and probe, the         *)
(* argument and results of one pure function applied on its own.           *)
(***************************************************************************)
EXTENDS Integers, Sequences, FiniteSets, TLC

VARIABLES prefs, calls, http, prefChanges, lastSelection, popup, wordbook,
          selection, dot, enableContext, corner, plugin, probe

\* the state the translation UI and the wordbook keep
uiVars == <<lastSelection, popup, wordbook, selection, dot, enableContext, corner, plugin>>

vars == <<prefs, calls, http, prefChanges, lastSelection, popup, wordbook,
          selection, dot, enableContext, corner, plugin, probe>>

\* ------------------------------------------------------------------ bounds
MaxCalls == 2
MaxPrefChanges == 1

\* ------------------------------------------------------- nullable values
NULL == <<>>
Some(v) == <<v>>
IsNull(x) == x = <<>>
Val(x) == x[1]

\* ------------------------------------------------------ string primitives
Whitespace == {" ", "\n", "\t", "\r"}

RECURSIVE trimStart(_)
trimStart(s) ==
  IF s = <<>> THEN s
  ELSE IF Head(s) \in Whitespace THEN trimStart(Tail(s)) ELSE s

RECURSIVE trimEnd(_)
trimEnd(s) ==
  IF s = <<>> THEN s
  ELSE IF s[Len(s)] \in Whitespace THEN trimEnd(SubSeq(s, 1, Len(s) - 1)) ELSE s

trim(s) == trimEnd(trimStart(s))

includes(s, sub) ==
  \E i \in 1..(Len(s) - Len(sub) + 1) : SubSeq(s, i, i + Len(sub) - 1) = sub

endsWith(s, suffix) ==
  /\ Len(s) >= Len(suffix)
  /\ SubSeq(s, Len(s) - Len(suffix) + 1, Len(s)) = suffix

substring0(s, n) == SubSeq(s, 1, IF Len(s) < n THEN Len(s) ELSE n)

RECURSIVE join(_, _)
join(parts, sep) ==
  IF parts = <<>> THEN <<>>
  ELSE IF Len(parts) = 1 THEN parts[1]
  ELSE parts[1] \o sep \o join(Tail(parts), sep)

UPPER ==
  <<"A", "B", "C", "D", "E", "F", "G", "H", "I", "J", "K", "L", "M", "N", "O",
    "P", "Q", "R", "S", "T", "U", "V", "W", "X", "Y", "Z">>
LOWER ==
  <<"a", "b", "c", "d", "e", "f", "g", "h", "i", "j", "k", "l", "m", "n", "o",
    "p", "q", "r", "s", "t", "u", "v", "w", "x", "y", "z">>

toLowerCase(s) ==
  [i \in 1..Len(s) |->
     IF \E k \in 1..Len(UPPER) : UPPER[k] = s[i]
     THEN LOWER[CHOOSE k \in 1..Len(UPPER) : UPPER[k] = s[i]]
     ELSE s[i]]

\* literals of the source, as character sequences
STR_image == <<"i", "m", "a", "g", "e">>
STR_Image == <<"I", "m", "a", "g", "e">>
STR_IMAGE == <<"I", "M", "A", "G", "E">>
STR_openai == <<"o", "p", "e", "n", "a", "i">>
STR_bedrock == <<"b", "e", "d", "r", "o", "c", "k">>
STR_chatCompletions ==
  <<"/", "c", "h", "a", "t", "/", "c", "o", "m", "p", "l", "e", "t", "i", "o", "n", "s">>

\* --------------------------------------------------------- settings store
PrefKeys ==
  {"provider", "bedrock.apiKey", "bedrock.modelId", "bedrock.region",
   "openai.apiKey", "openai.modelId", "openai.endpoint", "targetLanguage"}

\* mutant of getStringPref: the values read at startup are kept and the
\* store is not read again
getStringPrefCached(store, key, defaultValue) ==
  LET val == IF key = "bedrock.apiKey" THEN Some(<<"k", "b">>) ELSE NULL
  IN IF ~IsNull(val) /\ Val(val) # <<>> /\ Len(trim(Val(val))) > 0
     THEN trim(Val(val))
     ELSE defaultValue

\* mutant of getStringPref: a stored value is taken as it is, blanks included
getStringPrefUntrimmed(store, key, defaultValue) ==
  LET val == store[key]
  IN IF ~IsNull(val) /\ Val(val) # <<>> THEN Val(val) ELSE defaultValue

\* getStringPref: the stored value trimmed when it is set and not blank,
\* the default otherwise
getStringPref(store, key, defaultValue) ==
  LET val == store[key]
  IN IF ~IsNull(val) /\ Val(val) # <<>> /\ Len(trim(Val(val))) > 0
     THEN trim(Val(val))
     ELSE defaultValue

DEFAULT_bedrockModelId == <<"us.anthropic.claude-sonnet-4-5-20250929-v1", ":", "0">>
DEFAULT_openaiModelId == <<"gpt-4o">>
DEFAULT_region == <<"us-east-1">>
DEFAULT_endpoint == <<"https:", "/", "/", "api.openai.com", "/", "v1">> \o STR_chatCompletions
DEFAULT_targetLanguage == <<"zh-CN">>

ERR_openaiKey ==
  <<"OpenAI", " API key not configured. Please set it in Vibe Translate preferences.">>
ERR_bedrockKey ==
  <<"Bedrock", " API key not configured. Please set it in Vibe Translate preferences.">>

\* getConfig: threw = TRUE models the thrown configuration error
getConfig(store) ==
  LET provider == getStringPref(store, "provider", STR_bedrock)
  IN IF provider = STR_openai
     THEN LET apiKey == getStringPref(store, "openai.apiKey", <<>>)
              modelId == getStringPref(store, "openai.modelId", DEFAULT_openaiModelId)
              endpoint == getStringPref(store, "openai.endpoint", DEFAULT_endpoint)
          IN IF apiKey = <<>>
             THEN [threw |-> TRUE, message |-> ERR_openaiKey, provider |-> provider,
                   apiKey |-> <<>>, modelId |-> <<>>, region |-> <<>>,
                   openaiEndpoint |-> <<>>]
             ELSE [threw |-> FALSE, message |-> <<>>, provider |-> provider,
                   apiKey |-> apiKey, modelId |-> modelId, region |-> <<>>,
                   openaiEndpoint |-> endpoint]
     ELSE LET apiKey == getStringPref(store, "bedrock.apiKey", <<>>)
              modelId == getStringPref(store, "bedrock.modelId", DEFAULT_bedrockModelId)
              region == getStringPref(store, "bedrock.region", DEFAULT_region)
          IN IF apiKey = <<>>
             THEN [threw |-> TRUE, message |-> ERR_bedrockKey, provider |-> provider,
                   apiKey |-> <<>>, modelId |-> <<>>, region |-> <<>>,
                   openaiEndpoint |-> <<>>]
             ELSE [threw |-> FALSE, message |-> <<>>, provider |-> provider,
                   apiKey |-> apiKey, modelId |-> modelId, region |-> region,
                   openaiEndpoint |-> <<>>]

\* ---------------------------------------------------------- prompt building
\* mutant of isSingleWord: the text is searched as it is, untrimmed
isSingleWordUntrimmed(text) ==
  /\ ~includes(text, <<" ">>)
  /\ ~includes(text, <<"\n">>)
  /\ ~includes(text, <<"\t">>)

isSingleWord(text) ==
  LET trimmed == trim(text)
  IN /\ ~includes(trimmed, <<" ">>)
     /\ ~includes(trimmed, <<"\n">>)
     /\ ~includes(trimmed, <<"\t">>)

CONTEXT_NOTE ==
  <<"\n", "A screenshot of the current PDF page is provided for context. Use it to improve translation accuracy for domain-specific terms.">>
\* the annotation line; "{pushpin}" stands for the pushpin character that
\* starts it
PIN_LINE == <<"{pushpin}", " {contextual meaning in this paper}">>

buildSystemPrompt(targetLanguage, singleWord, hasScreenshot) ==
  LET contextNote == IF hasScreenshot THEN CONTEXT_NOTE ELSE <<>>
  IN IF singleWord
     THEN <<"You are an expert academic dictionary and translator. Translate the word to ">>
          \o targetLanguage \o <<".">> \o contextNote
          \o <<"\n", "\n", "Output in this EXACT format (use [] markers): [word] [ipa] [senses] 1. {part of speech}. {meaning in ">>
          \o targetLanguage
          \o <<"}", "\n", "2. {part of speech}. {meaning in ">>
          \o targetLanguage
          \o <<"}", "\n", "[examples] EN: {example sentence in English}", "\n", "* ">>
          \o targetLanguage
          \o <<": {example sentence translated}", "\n">>
          \o (IF hasScreenshot THEN PIN_LINE ELSE <<>>)
          \o <<"\n", "\n", "Example for elaborate: ...">>
     ELSE <<"You are an expert academic translator. Translate the text to ">>
          \o targetLanguage \o <<".">> \o contextNote
          \o <<"\n", "\n", "Output in this EXACT format (use [] markers): [translation] {accurate translation into ">>
          \o targetLanguage
          \o <<"}", "\n", "[patterns] 1. {grammar pattern}: {explanation in ">>
          \o targetLanguage
          \o <<"}", "\n", "2. {grammar pattern}: {explanation in ">>
          \o targetLanguage
          \o <<"}", "\n", "[vocabulary] 1. {word} ({part of speech}): {meaning in ">>
          \o targetLanguage
          \o <<"}", "\n", "2. {word} ({part of speech}): {meaning in ">>
          \o targetLanguage
          \o <<"}", "\n", "\n", "Example for It is not how much we have ...">>

\* ------------------------------------------------- Bedrock Converse API
WordChars ==
  {"a", "b", "c", "d", "e", "f", "g", "h", "i", "j", "k", "l", "m", "n", "o",
   "p", "q", "r", "s", "t", "u", "v", "w", "x", "y", "z",
   "A", "B", "C", "D", "E", "F", "G", "H", "I", "J", "K", "L", "M", "N", "O",
   "P", "Q", "R", "S", "T", "U", "V", "W", "X", "Y", "Z",
   "0", "1", "2", "3", "4", "5", "6", "7", "8", "9", "_"}
LineTerminators == {"\n", "\r"}

\* number of leading elements of s that are word characters
RECURSIVE wordRun(_)
wordRun(s) ==
  IF s = <<>> THEN 0
  ELSE IF Head(s) \in WordChars THEN 1 + wordRun(Tail(s)) ELSE 0

\* mutant of dataUrlMatch: the second group starts at the beginning of the
\* string, so the data-URI prefix stays in the bytes
dataUrlMatchKeepPrefix(s) ==
  LET n == IF Len(s) >= 2 THEN wordRun(SubSeq(s, 3, Len(s))) ELSE 0
  IN IF Len(s) >= 5 /\ s[1] = "data:" /\ s[2] = "image/" /\ n >= 1
        /\ Len(s) >= 3 + n + 1 /\ s[3 + n] = ";base64,"
     THEN [matched |-> TRUE, format |-> SubSeq(s, 3, 2 + n), base64Data |-> s]
     ELSE [matched |-> FALSE, format |-> <<>>, base64Data |-> <<>>]

\* pageScreenshot.match(/^data:(image\/\w+);base64,(.+)$/): matched = FALSE
\* models the null result; "data:", "image/" and ";base64," are fragments
dataUrlMatch(s) ==
  LET n == IF Len(s) >= 2 THEN wordRun(SubSeq(s, 3, Len(s))) ELSE 0
      rest == SubSeq(s, 3 + n + 1, Len(s))
  IN IF /\ Len(s) >= 5
        /\ s[1] = "data:"
        /\ s[2] = "image/"
        /\ n >= 1
        /\ Len(s) >= 3 + n
        /\ s[3 + n] = ";base64,"
        /\ Len(rest) >= 1
        /\ \A i \in 1..Len(rest) : rest[i] \notin LineTerminators
     THEN [matched |-> TRUE, format |-> SubSeq(s, 3, 2 + n), base64Data |-> rest]
     ELSE [matched |-> FALSE, format |-> <<>>, base64Data |-> <<>>]

\* a string|null argument is truthy when it is neither null nor ""
truthy(x) == ~IsNull(x) /\ Val(x) # <<>>

buildBedrockBody(systemPrompt, userText, pageScreenshot) ==
  LET m == IF truthy(pageScreenshot) THEN dataUrlMatch(Val(pageScreenshot))
           ELSE [matched |-> FALSE, format |-> <<>>, base64Data |-> <<>>]
      userContent ==
        <<[text |-> userText]>>
        \o (IF m.matched
            THEN <<[image |-> [format |-> m.format,
                               source |-> [bytes |-> m.base64Data]]]>>
            ELSE <<>>)
  IN [system |-> <<[text |-> systemPrompt]>>,
      messages |-> <<[role |-> "user", content |-> userContent]>>,
      inferenceConfig |-> [maxTokens |-> 4096, temperature |-> "0.1"]]

\* encodeURIComponent on the characters the model ids use; fragments hold
\* unreserved characters only
encodeChar(c) ==
  CASE c = ":" -> <<"%3A">>
    [] c = "/" -> <<"%2F">>
    [] c = " " -> <<"%20">>
    [] OTHER -> <<c>>

RECURSIVE encodeURIComponent(_)
encodeURIComponent(s) ==
  IF s = <<>> THEN <<>> ELSE encodeChar(Head(s)) \o encodeURIComponent(Tail(s))

\* callBedrock up to the await of Zotero.HTTP.request: the request it posts,
\* or the configuration error getConfig throws; reads counts the getConfig
\* calls made on the way
callBedrock(store, modelId, requestBody) ==
  LET cfg == getConfig(store)
  IN IF cfg.threw
     THEN [threw |-> TRUE, message |-> cfg.message, request |-> NULL, reads |-> 1]
     ELSE [threw |-> FALSE, message |-> <<>>, reads |-> 1,
           request |-> Some(
             [api |-> "bedrock",
              method |-> "POST",
              url |-> <<"https:", "/", "/", "bedrock-runtime.">> \o cfg.region
                      \o <<".amazonaws.com", "/", "model", "/">>
                      \o encodeURIComponent(modelId) \o <<"/", "converse">>,
              contentType |-> "application/json",
              authorization |-> <<"Bearer ">> \o cfg.apiKey,
              body |-> requestBody])]

\* ------------------------------------------------- OpenAI-compatible API
buildOpenAIBody(systemPrompt, userText, pageScreenshot, modelId) ==
  LET userContent ==
        <<[type |-> "text", text |-> userText]>>
        \o (IF truthy(pageScreenshot)
            THEN <<[type |-> "image_url", image_url |-> [url |-> Val(pageScreenshot)]]>>
            ELSE <<>>)
  IN [model |-> modelId,
      messages |-> <<[role |-> "system", content |-> systemPrompt],
                     [role |-> "user", content |-> userContent]>>,
      max_tokens |-> 4096,
      temperature |-> "0.1"]

\* mutant of stripTrailingSlashes: replace(/\/$/, ""), one slash only
stripOneTrailingSlash(s) ==
  IF s # <<>> /\ s[Len(s)] = "/" THEN SubSeq(s, 1, Len(s) - 1) ELSE s

\* openaiEndpoint.replace(/\/+$/, "")
RECURSIVE stripTrailingSlashes(_)
stripTrailingSlashes(s) ==
  IF s # <<>> /\ s[Len(s)] = "/" THEN stripTrailingSlashes(SubSeq(s, 1, Len(s) - 1))
  ELSE s

normalizeEndpoint(openaiEndpoint) ==
  LET url == stripTrailingSlashes(openaiEndpoint)
  IN IF ~endsWith(url, STR_chatCompletions) THEN url \o STR_chatCompletions ELSE url

callOpenAI(store, modelId, requestBody) ==
  LET cfg == getConfig(store)
  IN IF cfg.threw
     THEN [threw |-> TRUE, message |-> cfg.message, request |-> NULL, reads |-> 1]
     ELSE [threw |-> FALSE, message |-> <<>>, reads |-> 1,
           request |-> Some(
             [api |-> "openai",
              method |-> "POST",
              url |-> normalizeEndpoint(cfg.openaiEndpoint),
              contentType |-> "application/json",
              authorization |-> <<"Bearer ">> \o cfg.apiKey,
              body |-> requestBody])]

\* ------------------------------------------------------ unified dispatcher
\* mutant of callModel: the OpenAI body is handed to the Bedrock caller
callModelCrossed(store, systemPrompt, userText, pageScreenshot) ==
  LET cfg == getConfig(store)
  IN IF cfg.threw
     THEN [threw |-> TRUE, message |-> cfg.message, request |-> NULL, reads |-> 1]
     ELSE LET r == callBedrock(store, cfg.modelId,
                     buildOpenAIBody(systemPrompt, userText, pageScreenshot,
                                     cfg.modelId))
          IN [r EXCEPT !.reads = @ + 1]

\* callModel up to the await inside the caller: its own getConfig, the
\* builder, then the caller, which calls getConfig again before it awaits
callModel(store, systemPrompt, userText, pageScreenshot) ==
  LET cfg == getConfig(store)
  IN IF cfg.threw
     THEN [threw |-> TRUE, message |-> cfg.message, request |-> NULL, reads |-> 1]
     ELSE LET r == IF cfg.provider = STR_openai
                   THEN callOpenAI(store, cfg.modelId,
                          buildOpenAIBody(systemPrompt, userText, pageScreenshot,
                                          cfg.modelId))
                   ELSE callBedrock(store, cfg.modelId,
                          buildBedrockBody(systemPrompt, userText, pageScreenshot))
          IN [r EXCEPT !.reads = @ + 1]

\* ------------------------------------------- settling of the HTTP request
\* A response of the HTTP primitive: how = "resolve" (the promise resolves
\* with an xhr of that status), "rejectStatus" (it rejects with an exception
\* carrying xmlhttp) or "rejectTransport" (it rejects with a plain error).
\* json is the parsed body, NULL when the body is not JSON; its members are
\* output (the parts of output.message.content, each with a text or not),
\* choices (choices[0].message.content) and error (any other member).
Json(output, choices, err) == [output |-> output, choices |-> choices, error |-> err]
NoJson == NULL

Resolve(status, responseText, json) ==
  [how |-> "resolve", status |-> status, responseText |-> responseText,
   json |-> json, message |-> <<>>]
RejectStatus(status, responseText) ==
  [how |-> "rejectStatus", status |-> status, responseText |-> responseText,
   json |-> NoJson, message |-> <<>>]
RejectTransport(message) ==
  [how |-> "rejectTransport", status |-> 0, responseText |-> <<>>,
   json |-> NoJson, message |-> message]
NoResponse ==
  [how |-> "none", status |-> 0, responseText |-> <<>>, json |-> NoJson,
   message |-> <<>>]

\* JSON.stringify of a parsed body
RECURSIVE stringifyParts(_)
stringifyParts(parts) ==
  IF parts = <<>> THEN <<>>
  ELSE (IF IsNull(Head(parts)) THEN <<"{}">>
        ELSE <<"{\"text\":\"">> \o Val(Head(parts)) \o <<"\"}">>)
       \o stringifyParts(Tail(parts))

stringify(json) ==
  <<"{">>
  \o (IF IsNull(json.output) THEN <<>>
      ELSE <<"\"output\":{\"message\":{\"content\":[">>
           \o stringifyParts(Val(json.output)) \o <<"]}}">>)
  \o (IF IsNull(json.choices) THEN <<>>
      ELSE <<"\"choices\":[{\"message\":{\"content\":\"">>
           \o Val(json.choices) \o <<"\"}}]">>)
  \o (IF IsNull(json.error) THEN <<>>
      ELSE <<"\"error\":\"">> \o Val(json.error) \o <<"\"">>)
  \o <<"}">>

\* content.filter(part => part.text).map(part => part.text)
RECURSIVE partTexts(_)
partTexts(parts) ==
  IF parts = <<>> THEN <<>>
  ELSE (IF truthy(Head(parts)) THEN <<Val(Head(parts))>> ELSE <<>>)
       \o partTexts(Tail(parts))

Returned(text) == [ok |-> TRUE, text |-> text, message |-> <<>>]
Thrown(message) == [ok |-> FALSE, text |-> <<>>, message |-> message]

ERR_jsonParse == <<"JSON.parse: unexpected character at line 1 column 1 of the JSON data">>

\* e.message || String(e)
messageOf(message) == IF message # <<>> THEN message ELSE <<"Error">>

\* the part of a caller after the await: the text it returns or the error
\* it throws; name is "Bedrock" or "OpenAI"
apiError(name, status, text) ==
  Thrown(<<name, " API error (", ToString(status), "): ">> \o substring0(text, 500))

callBedrockSettled(resp) ==
  IF resp.how = "rejectStatus" THEN apiError("Bedrock", resp.status, resp.responseText)
  ELSE IF resp.how = "rejectTransport"
  THEN Thrown(<<"HTTP request failed: ">> \o messageOf(resp.message))
  ELSE IF resp.status # 200 THEN apiError("Bedrock", resp.status, resp.responseText)
  ELSE IF IsNull(resp.json) THEN Thrown(ERR_jsonParse)
  ELSE IF ~IsNull(Val(resp.json).output)
  THEN Returned(join(partTexts(Val(Val(resp.json).output)), <<"\n">>))
  ELSE Thrown(<<"Unexpected Bedrock response: ">> \o stringify(Val(resp.json)))

callOpenAISettled(resp) ==
  IF resp.how = "rejectStatus" THEN apiError("OpenAI", resp.status, resp.responseText)
  ELSE IF resp.how = "rejectTransport"
  THEN Thrown(<<"HTTP request failed: ">> \o messageOf(resp.message))
  ELSE IF resp.status # 200 THEN apiError("OpenAI", resp.status, resp.responseText)
  ELSE IF IsNull(resp.json) THEN Thrown(ERR_jsonParse)
  ELSE IF truthy(Val(resp.json).choices)
  THEN Returned(Val(Val(resp.json).choices))
  ELSE Thrown(<<"Unexpected OpenAI response: ">> \o stringify(Val(resp.json)))

\* the caller callModel returned, continued with the response
callModelSettled(api, resp) ==
  IF api = "openai" THEN callOpenAISettled(resp) ELSE callBedrockSettled(resp)

\* ----------------------------------------------- translateText, testConnection
\* An Error object: its message and thrownBy, the callModel attempt of the
\* operation that created it (0: the operation's own getConfig)
Err(message, n) == [message |-> message, thrownBy |-> n]
NoErr == [message |-> <<>>, thrownBy |-> -1]

\* one callModel invocation as the dispatcher sees it; configReads is the
\* number of getConfig calls made inside it
Attempt(systemPrompt, userText, image, r) ==
  [systemPrompt |-> systemPrompt, userText |-> userText, image |-> image,
   issued |-> ~r.threw, configReads |-> r.reads]

\* The result of running an operation up to its next await or to its end:
\* state = "await" (the requests were posted and the operation awaits the
\* first of them), "resolved" (value) or "rejected" (error); stage is the
\* await the operation is at ("try", "fallback" or "test")
Await(stage, attempts, requests) ==
  [state |-> "await", stage |-> stage, value |-> <<>>, error |-> NoErr,
   attempts |-> attempts, requests |-> requests]
Resolved(stage, attempts, value) ==
  [state |-> "resolved", stage |-> stage, value |-> value, error |-> NoErr,
   attempts |-> attempts, requests |-> <<>>]
Rejected(stage, attempts, e) ==
  [state |-> "rejected", stage |-> stage, value |-> <<>>, error |-> e,
   attempts |-> attempts, requests |-> <<>>]

\* mutants of isImageError: the lower-case test lost; the test made
\* case-insensitive
isImageErrorCapitalOnly(errMsg) == includes(errMsg, STR_Image)

isImageErrorIgnoreCase(errMsg) == includes(toLowerCase(errMsg), STR_image)

\* errMsg.includes("image") || errMsg.includes("Image")
isImageError(errMsg) == includes(errMsg, STR_image) \/ includes(errMsg, STR_Image)

\* mutant of retryWithoutImage: the retry no longer asks for an image
retryOnImageErrorAlone(hasScreenshot, errMsg) == isImageError(errMsg)

retryWithoutImage(hasScreenshot, errMsg) == hasScreenshot /\ isImageError(errMsg)

\* mutant of fallbackPromptOf: the first attempt's prompt is sent again
fallbackPromptUnchanged(L) ==
  buildSystemPrompt(L.targetLanguage, L.singleWord, L.hasScreenshot)

\* the system prompt of the fallback attempt
fallbackPromptOf(L) == buildSystemPrompt(L.targetLanguage, L.singleWord, FALSE)

\* the catch block of translateText, entered with error e; L holds the
\* locals targetLanguage, singleWord, hasScreenshot, userText
\* an operation after the callModel of its stage ran up to its await with
\* result r: it awaits the request posted, or rejects with the
\* configuration error callModel threw
Called(stage, attempts, systemPrompt, userText, image, r) ==
  LET att == Append(attempts, Attempt(systemPrompt, userText, image, r))
  IN IF r.threw THEN Rejected(stage, att, Err(r.message, Len(att)))
     ELSE Await(stage, att, <<Val(r.request)>>)

\* the fallback of translateText: callModel without the image
translateTextFallback(store, attempts, fallbackPrompt, userText) ==
  Called("fallback", attempts, fallbackPrompt, userText, NULL,
         callModel(store, fallbackPrompt, userText, NULL))

translateTextCatch(store, L, attempts, e) ==
  IF retryWithoutImage(L.hasScreenshot, messageOf(e.message))
  THEN translateTextFallback(store, attempts, fallbackPromptOf(L), L.userText)
  ELSE Rejected("try", attempts, e)

\* mutant of translateTextLocals: hasScreenshot is set whatever the input
translateTextLocalsAlwaysContext(store, input) ==
  LET singleWord == isSingleWord(input.text)
  IN [targetLanguage |-> getStringPref(store, "targetLanguage", DEFAULT_targetLanguage),
      singleWord |-> singleWord,
      hasScreenshot |-> TRUE,
      userText |-> IF singleWord THEN <<"Word: ">> \o input.text
                   ELSE <<"Text: ">> \o input.text]

translateTextLocals(store, input) ==
  LET singleWord == isSingleWord(input.text)
  IN [targetLanguage |-> getStringPref(store, "targetLanguage", DEFAULT_targetLanguage),
      singleWord |-> singleWord,
      hasScreenshot |-> truthy(input.pageScreenshot),
      userText |-> IF singleWord THEN <<"Word: ">> \o input.text
                   ELSE <<"Text: ">> \o input.text]

\* mutant of translateTextEntry: the attempt without the image is posted
\* together with the first attempt instead of after its failure
translateTextEntryEager(store, input) ==
  LET L == translateTextLocals(store, input)
      cfg == getConfig(store)
  IN IF cfg.threw THEN Rejected("entry", <<>>, Err(cfg.message, 0))
     ELSE LET systemPrompt ==
                buildSystemPrompt(L.targetLanguage, L.singleWord, L.hasScreenshot)
              image == IF L.hasScreenshot THEN input.pageScreenshot ELSE NULL
              r == callModel(store, systemPrompt, L.userText, image)
              f == callModel(store, fallbackPromptOf(L), L.userText, NULL)
              att == <<Attempt(systemPrompt, L.userText, image, r)>>
          IN IF r.threw \/ f.threw THEN Rejected("try", att, Err(r.message, 1))
             ELSE Await("try", att, <<Val(r.request), Val(f.request)>>)

\* translateText from its entry to the first await
translateTextTried(store, L, systemPrompt, image, r) ==
  LET att == <<Attempt(systemPrompt, L.userText, image, r)>>
  IN IF r.threw THEN translateTextCatch(store, L, att, Err(r.message, 1))
     ELSE Await("try", att, <<Val(r.request)>>)

\* the try block of translateText: callModel with the screenshot, if any
translateTextTry(store, L, systemPrompt, image) ==
  translateTextTried(store, L, systemPrompt, image,
                     callModel(store, systemPrompt, L.userText, image))

\* translateText after its locals are set
translateTextBody(store, L, pageScreenshot, cfg) ==
  IF cfg.threw THEN Rejected("entry", <<>>, Err(cfg.message, 0))
  ELSE translateTextTry(store, L,
         buildSystemPrompt(L.targetLanguage, L.singleWord, L.hasScreenshot),
         IF L.hasScreenshot THEN pageScreenshot ELSE NULL)

translateTextEntry(store, input) ==
  translateTextBody(store, translateTextLocals(store, input), input.pageScreenshot,
                    getConfig(store))

\* mutant of translateTextSettled: a failed fallback goes through the catch
\* block again
translateTextSettledRetrying(store, L, stage, attempts, fin) ==
  IF fin.ok THEN Resolved(stage, attempts, trim(fin.text))
  ELSE translateTextCatch(store, L, attempts, Err(fin.message, Len(attempts)))

\* mutant of translateTextSettled: a failed fallback leaves the call
\* waiting for a request that was never posted
translateTextSettledHanging(store, L, stage, attempts, fin) ==
  IF fin.ok THEN Resolved(stage, attempts, trim(fin.text))
  ELSE IF stage = "try"
       THEN translateTextCatch(store, L, attempts, Err(fin.message, Len(attempts)))
       ELSE Await(stage, attempts, <<>>)

\* translateText continued when the awaited callModel settles with fin
translateTextSettled(store, L, stage, attempts, fin) ==
  IF fin.ok THEN Resolved(stage, attempts, trim(fin.text))
  ELSE IF stage = "try"
       THEN translateTextCatch(store, L, attempts, Err(fin.message, Len(attempts)))
       ELSE Rejected(stage, attempts, Err(fin.message, Len(attempts)))

TEST_systemPrompt == <<"You are a helpful assistant. Reply in one short sentence.">>
TEST_userText == <<"Say hello and confirm you are working.">>

\* testConnection after its getConfig: one callModel, no image
testConnectionBody(store, cfg) ==
  IF cfg.threw THEN Rejected("entry", <<>>, Err(cfg.message, 0))
  ELSE Called("test", <<>>, TEST_systemPrompt, TEST_userText, NULL,
              callModel(store, TEST_systemPrompt, TEST_userText, NULL))

testConnectionEntry(store) == testConnectionBody(store, getConfig(store))

\* mutant of testConnectionSettled: a first failure that mentions an image
\* is answered by a second callModel, as in translateText
testConnectionSettledWithFallback(attempts, fin) ==
  IF fin.ok THEN Resolved("test", attempts, fin.text)
  ELSE IF Len(attempts) = 1 /\ isImageError(messageOf(fin.message))
       THEN translateTextFallback(prefs, attempts, TEST_systemPrompt, TEST_userText)
       ELSE Rejected("test", attempts, Err(fin.message, Len(attempts)))

\* testConnection continued when its callModel settles with fin
testConnectionSettled(attempts, fin) ==
  IF fin.ok THEN Resolved("test", attempts, fin.text)
  ELSE Rejected("test", attempts, Err(fin.message, Len(attempts)))

\* ------------------------------------------------------------ environment
\* values the user can give a preference
PrefDomain(key) ==
  CASE key = "provider" -> {NULL, Some(STR_openai), Some(STR_bedrock)}
    [] key = "bedrock.apiKey" -> {NULL, Some(<<" ">>), Some(<<"k", "b">>)}
    [] key = "bedrock.modelId" -> {NULL, Some(<<"m", ":", "1">>)}
    [] key = "bedrock.region" -> {NULL, Some(<<"e", "u">>)}
    [] key = "openai.apiKey" -> {Some(<<>>), Some(<<" ", "k", "o", " ">>)}
    [] key = "openai.modelId" -> {NULL, Some(<<"g", "4">>)}
    [] key = "openai.endpoint" -> {NULL, Some(<<"h", "/", "v", "1", "/">>)}
    [] key = "targetLanguage" -> {NULL, Some(<<"f", "r">>)}

UnsetStore == [k \in PrefKeys |-> NULL]

InitStores ==
  { \* Bedrock by default, key set
    [UnsetStore EXCEPT !["bedrock.apiKey"] = Some(<<"k", "b">>)],
    \* OpenAI-compatible, key padded with blanks, endpoint with a trailing slash
    [UnsetStore EXCEPT !["provider"] = Some(STR_openai),
                       !["openai.apiKey"] = Some(<<" ", "k", "o", " ">>),
                       !["openai.endpoint"] = Some(<<"h", "/", "v", "1", "/">>),
                       !["bedrock.apiKey"] = Some(<<"k", "b">>)],
    \* Bedrock active with a blank key while an OpenAI key is stored
    [UnsetStore EXCEPT !["bedrock.apiKey"] = Some(<<" ">>),
                       !["openai.apiKey"] = Some(<<" ", "k", "o", " ">>)] }

PNG_URI == <<"data:", "image/", "p", "n", "g", ";base64,", "A", "A", "A", "A">>

TranslationInput(text, pageScreenshot, pageNumber) ==
  [text |-> text, pageScreenshot |-> pageScreenshot, pageNumber |-> pageNumber]

Inputs ==
  { TranslationInput(<<"r", "u", "n">>, NULL, NULL),
    TranslationInput(<<"r", "u", "n">>, Some(PNG_URI), Some(1)),
    TranslationInput(<<"a", " ", "b">>, Some(PNG_URI), Some(2)) }

\* a data URL of an image type whose subtype is not made of word characters
SVG_URI ==
  <<"data:", "image/", "s", "v", "g", "+", "x", "m", "l", ";base64,", "A", "A", "A", "A">>

\* the same, with a passage selected while page context is off
SerialInputs == Inputs \cup {TranslationInput(<<"a", " ", "b">>, NULL, NULL)}

NoInput == TranslationInput(<<>>, NULL, NULL)

TXT_padded == <<" ", "h", "i", "\n">>

\* a body of 501 characters, one more than the callers keep of it
LongBody == [i \in 1..501 |-> "e"]

\* a resolved response whose body is the JSON text of json
ResolveJson(status, json) == Resolve(status, stringify(json), Some(json))

\* a body in the envelope of the provider, carrying text
Envelope(api, text) ==
  IF api = "openai" THEN Json(NULL, Some(text), NULL)
  ELSE Json(Some(<<Some(text)>>), NULL, NULL)

\* what the server (or the transport) can answer to a request
CommonResponsesFor(api) ==
  { ResolveJson(200, Envelope(api, TXT_padded)),
    RejectStatus(400, <<"n", "o", " ">> \o STR_image),
    RejectStatus(400, STR_Image \o <<"s">>),
    RejectStatus(400, STR_IMAGE),
    RejectStatus(500, LongBody),
    RejectTransport(<<"timeout">>) }

\* the same, with the answers a gateway or a changed vendor API can give:
\* another success status, a JSON body without the envelope, a body that
\* is not JSON
ResponsesFor(api) ==
  CommonResponsesFor(api)
  \cup { ResolveJson(201, Envelope(api, <<"o", "k">>)),
         ResolveJson(200, Json(NULL, NULL, Some(<<"b", "a", "d", " ">> \o STR_image))),
         ResolveJson(200, Json(NULL, NULL, Some(<<"b", "u", "s", "y">>))),
         Resolve(200, <<"<html>">>, NoJson) }

\* ------------------------------------------------------------------ state
\* calls[c]: the invocation of translateText or testConnection that runs in
\* slot c (a finished invocation stays until the slot is used again).  pc is
\* "idle", "await", "resolved" or "rejected"; awaiting is the index in
\* http[c] of the request whose settling resumes it; stores lists the
\* settings store as it was each time the invocation ran; prev is the store
\* the previous invocation of the slot was entered with.
\* http[c]: the requests the invocation posted through Zotero.HTTP.request.
NoLocals ==
  [targetLanguage |-> <<>>, singleWord |-> FALSE, hasScreenshot |-> FALSE,
   userText |-> <<>>]

IdleCall ==
  [op |-> "none", pc |-> "idle", input |-> NoInput, L |-> NoLocals,
   stage |-> "none", attempts |-> <<>>, awaiting |-> 0, value |-> <<>>,
   error |-> NoErr, stores |-> <<>>, prev |-> NULL]

Calls == 1..MaxCalls

\* the popup container of a translation: none yet, or attached to the
\* document or not, showing text in the given way
NoPopup == [shown |-> "none", attached |-> FALSE, text |-> <<>>]

\* the corner popup, one element with a fixed id that the translations
\* share: not created yet, or showing text; by is the translation (its
\* slot) whose performTranslation or showCornerPopup wrote the content
NoCorner == [shown |-> "none", attached |-> FALSE, text |-> <<>>, by |-> 0]

\* what the plugin has registered: the reader's renderTextSelectionPopup
\* listener, keydown handlers on the main window, Notifier observers,
\* mouse-up tracker installations on reader windows, the setTimeout
\* callbacks not run yet (500 ms: readers open at init, 1000 ms: tab
\* selections), and the module's cleanupFns array.  inits and selects count
\* the init calls and the tab selections so far.
NotLoaded ==
  [running |-> FALSE, readerListener |-> FALSE, keydown |-> 0, observers |-> 0,
   mouseup |-> 0, timers500 |-> 0, timers1000 |-> 0, cleanupFns |-> <<>>,
   inits |-> 0, selects |-> 0]

\* no pure function is being applied
NoProbe == [fn |-> "none", arg |-> <<>>, outs |-> <<>>]

Init ==
  /\ prefs \in InitStores
  /\ calls = [c \in Calls |-> IdleCall]
  /\ http = [c \in Calls |-> <<>>]
  /\ prefChanges = 0
  /\ lastSelection = NULL
  /\ popup = [c \in Calls |-> NoPopup]
  /\ wordbook = <<>>
  /\ selection = NULL
  /\ dot = NULL
  /\ enableContext = TRUE
  /\ corner = NoCorner
  /\ plugin = NotLoaded
  /\ probe = NoProbe

\* the requests r posts, as pending entries of the log
Posted(r) ==
  [i \in 1..Len(r.requests) |->
     [req |-> r.requests[i], state |-> "pending", response |-> NoResponse]]

\* the call record after its code ran up to result r
Ran(call, r, awaited) ==
  [call EXCEPT !.pc = r.state, !.stage = r.stage, !.attempts = r.attempts,
               !.awaiting = IF r.state = "await" THEN awaited ELSE 0,
               !.value = r.value, !.error = r.error,
               !.stores = Append(@, prefs)]

\* slot c has not been used, and the slots before it have
Idle(c) ==
  /\ calls[c].pc = "idle"
  /\ \A d \in 1..(c - 1) : calls[d].pc # "idle"

\* the invocation of slot c has finished and its requests have settled
Finished(c) ==
  /\ calls[c].pc \in {"resolved", "rejected"}
  /\ \A i \in 1..Len(http[c]) : http[c][i].state = "settled"

NewCall(c, op, input, L) ==
  [IdleCall EXCEPT
     !.op = op, !.input = input, !.L = L,
     !.prev = IF calls[c].stores = <<>> THEN NULL ELSE Some(calls[c].stores[1])]

\* the user edits one preference
SetPref(key, v) ==
  /\ prefChanges < MaxPrefChanges
  /\ prefs[key] # v
  /\ prefs' = [prefs EXCEPT ![key] = v]
  /\ prefChanges' = prefChanges + 1
  /\ UNCHANGED <<calls, http, uiVars, probe>>

\* translateText(input) runs in slot c up to its first await; what the
\* caller does with its own state is the caller's part of the step
Started(c, call, r) ==
  /\ calls' = [calls EXCEPT ![c] = Ran(call, r, 1)]
  /\ http' = [http EXCEPT ![c] = Posted(r)]

StartTranslateText(c, input) ==
  /\ Started(c, NewCall(c, "translateText", input, translateTextLocals(prefs, input)),
             translateTextEntry(prefs, input))
  /\ UNCHANGED <<prefs, prefChanges, probe>>

\* testConnection() runs in slot c up to its first await
StartTestConnection(c) ==
  /\ Started(c, NewCall(c, "testConnection", NoInput, NoLocals),
             testConnectionEntry(prefs))
  /\ UNCHANGED <<prefs, prefChanges, probe>>

\* a caller that keeps no state of its own invokes translateText(input)
TranslateText(c, input) ==
  Idle(c) /\ StartTranslateText(c, input) /\ UNCHANGED uiVars

\* the preferences pane invokes testConnection() through the plugin object
TestConnection(c) == Idle(c) /\ StartTestConnection(c) /\ UNCHANGED uiVars

\* slot c is unused or its previous invocation is over
Free(c) == Idle(c) \/ Finished(c)

\* the same, one invocation after the other in slot c
TranslateTextSerial(c, input) ==
  Free(c) /\ StartTranslateText(c, input) /\ UNCHANGED uiVars

TestConnectionSerial(c) == Free(c) /\ StartTestConnection(c) /\ UNCHANGED uiVars

\* mutant of waiterOf: one module-level continuation is shared, so the
\* first invocation that awaits is the one that runs on
waiterOfShared(c, i) ==
  IF \E d \in Calls : calls[d].pc = "await"
  THEN {CHOOSE d \in Calls :
          /\ calls[d].pc = "await"
          /\ \A e \in Calls : calls[e].pc = "await" => d <= e}
  ELSE {}

\* the invocation that continues when request i of invocation c settles:
\* the one that posted it and awaits it
waiterOf(c, i) ==
  IF calls[c].pc = "await" /\ calls[c].awaiting = i THEN {c} ELSE {}

\* invocation w runs on to result r
Continued(w, settled, r) ==
  /\ calls' = [calls EXCEPT ![w] = Ran(calls[w], r, Len(http[w]) + 1)]
  /\ http' = [settled EXCEPT ![w] = @ \o Posted(r)]

\* invocation w resumes with fin, the outcome of the callModel it awaits
Resumed(w, settled, fin) ==
  Continued(w, settled,
            IF calls[w].op = "translateText"
            THEN translateTextSettled(prefs, calls[w].L, calls[w].stage,
                                      calls[w].attempts, fin)
            ELSE testConnectionSettled(calls[w].attempts, fin))

\* request i of invocation c settles with resp and the awaiting invocation
\* runs on to its next await or to its end
HttpSettle(c, i, resp) ==
  /\ http[c][i].state = "pending"
  /\ LET settled == [http EXCEPT ![c][i].state = "settled", ![c][i].response = resp]
         fin == callModelSettled(http[c][i].req.api, resp)
     IN IF waiterOf(c, i) = {}
        THEN /\ http' = settled
             /\ UNCHANGED calls
        ELSE Resumed(CHOOSE d \in waiterOf(c, i) : TRUE, settled, fin)
  /\ UNCHANGED <<prefs, prefChanges, probe>>

\* concurrent invocations under settings that stay as they are
Next ==
  \/ \E c \in Calls : \E input \in Inputs : TranslateText(c, input)
  \/ \E c \in Calls : TestConnection(c)
  \/ \E c \in Calls : \E i \in 1..Len(http[c]) :
       \E resp \in CommonResponsesFor(http[c][i].req.api) :
         HttpSettle(c, i, resp) /\ UNCHANGED uiVars

Spec == Init /\ [][Next]_vars

\* one invocation at a time while the user edits the settings
NextSettings ==
  \/ \E key \in PrefKeys : \E v \in PrefDomain(key) : SetPref(key, v)
  \/ \E input \in SerialInputs : TranslateTextSerial(1, input)
  \/ TestConnectionSerial(1)
  \/ \E i \in 1..Len(http[1]) :
       \E resp \in ResponsesFor(http[1][i].req.api) :
         HttpSettle(1, i, resp) /\ UNCHANGED uiVars

SpecSettings == Init /\ [][NextSettings]_vars

\* request i of invocation c settles, with any response
Settles(c, i) ==
  /\ i <= Len(http[c])
  /\ \E resp \in ResponsesFor(http[c][i].req.api) :
       HttpSettle(c, i, resp) /\ UNCHANGED uiVars

\* one invocation at a time under settings that stay as they are; the
\* screenshot is a PNG or another image type
NextLive ==
  \/ \E input \in SerialInputs
                  \cup {TranslationInput(<<"r", "u", "n">>, Some(SVG_URI), Some(1))} :
       TranslateTextSerial(1, input)
  \/ TestConnectionSerial(1)
  \/ \E i \in 1..2 : Settles(1, i)

\* the same, where every request posted settles in the end (an invocation
\* posts at most two requests)
SpecLive ==
  /\ Init /\ [][NextLive]_vars
  /\ \A i \in 1..2 : WF_vars(Settles(1, i))

\* ------------------------------------------ translation UI and wordbook
\* The popup position is the default one ("popup"): each translation gets
\* a container of its own, appended to the reader's selection popup.
MaxQueries == 2

\* mutant of findWordByText: the words are compared as they are written
findWordByTextExact(book, wordText) ==
  LET hits == {i \in 1..Len(book) : book[i].word = wordText}
  IN IF hits = {} THEN 0 ELSE CHOOSE i \in hits : \A j \in hits : i <= j

\* allWords.find(w => w.word.toLowerCase() === wordText.toLowerCase()):
\* the index of the entry, 0 when there is none
findWordByText(book, wordText) ==
  LET hits == {i \in 1..Len(book) : toLowerCase(book[i].word) = toLowerCase(wordText)}
  IN IF hits = {} THEN 0 ELSE CHOOSE i \in hits : \A j \in hits : i <= j

\* saveWord: the wordbook after the call
saveWord(book, word, translation, singleWord, pageNumber) ==
  LET existing == findWordByText(book, word)
  IN IF existing # 0
     THEN [book EXCEPT ![existing] =
             [@ EXCEPT !.translation = translation,
                       !.queryCount = @ + 1,
                       !.pageNumber = IF ~IsNull(pageNumber) THEN pageNumber ELSE @]]
     ELSE Append(book,
            [word |-> trim(word), translation |-> translation,
             isSingleWord |-> singleWord, starred |-> FALSE, queryCount |-> 1,
             pageNumber |-> pageNumber])

\* the container buildInlinePopup appends: title bar and "Translating..."
LoadingPopup == [shown |-> "loading", attached |-> TRUE, text |-> <<"Translating...">>]

\* setTranslationResult / setErrorState, done when the container is still
\* in the document; "{stack}" stands for the stack of the error
performTranslationShown(pop, call) ==
  IF ~pop.attached THEN pop
  ELSE IF call.pc = "resolved" THEN [pop EXCEPT !.shown = "result", !.text = call.value]
  ELSE IF call.pc = "rejected"
  THEN [pop EXCEPT !.shown = "error",
                   !.text = <<"{warning} Error: ">> \o messageOf(call.error.message)
                            \o <<"\n", "\n", "{stack}">>]
  ELSE pop

\* mutant of performTranslationSaved: saveWord is called after the try
\* block, whether translateText resolved or rejected
performTranslationSavedAlways(book, call) ==
  IF call.pc \in {"resolved", "rejected"}
  THEN saveWord(book, call.input.text, call.value,
                ~includes(call.input.text, <<" ">>) /\ ~includes(call.input.text, <<"\n">>),
                call.input.pageNumber)
  ELSE book

\* the wordbook after performTranslation ran on: the result is saved when
\* translateText resolved
performTranslationSaved(book, call) ==
  IF call.pc = "resolved"
  THEN saveWord(book, call.input.text, call.value,
                ~includes(call.input.text, <<" ">>) /\ ~includes(call.input.text, <<"\n">>),
                call.input.pageNumber)
  ELSE book

\* mutant of prepareContext: the page is captured whatever the preference
prepareContextAlways(selectedText, contextEnabled) ==
  { TranslationInput(selectedText, Some(PNG_URI), Some(1)),
    TranslationInput(selectedText, NULL, NULL) }

\* prepareContext(selectedText, reader): with the enableContext preference
\* on, capturePageScreenshot gives the page screenshot with its page number,
\* or neither when it finds no page canvas; with the preference off no
\* screenshot is taken
prepareContext(selectedText, contextEnabled) ==
  IF contextEnabled
  THEN { TranslationInput(selectedText, Some(PNG_URI), Some(1)),
         TranslationInput(selectedText, NULL, NULL) }
  ELSE { TranslationInput(selectedText, NULL, NULL) }

\* texts the reader reports as selected
Selections ==
  { <<"r", "u", "n">>, <<" ", "R", "u", "n", " ">>, <<"a", "\t", "b">>, <<" ">> }

RECURSIVE SumCounts(_)
SumCounts(book) ==
  IF book = <<>> THEN 0 ELSE book[1].queryCount + SumCounts(Tail(book))

\* total of the query counts; the model stops translating at MaxQueries
Queries == SumCounts(wordbook)

\* slot c can take a translation
CanTranslate(c) == Free(c) /\ Queries < MaxQueries

\* buildInlinePopup(doc, append, context): the container is appended and
\* performTranslation runs up to the await of translateText, or past it
\* when translateText rejects at once
BuildInlinePopup(c, context) ==
  /\ StartTranslateText(c, context)
  /\ popup' = [popup EXCEPT ![c] = performTranslationShown(LoadingPopup, calls'[c])]
  /\ wordbook' = wordbook

\* mutant of OnReaderTextSelection: the text is taken as reported, blank
\* or not
OnReaderTextSelectionUnchecked(c, text, autoTranslate) ==
  /\ selection' = Some(text)
  /\ UNCHANGED <<enableContext, corner, plugin>>
  /\ lastSelection' = Some(text)
  /\ IF autoTranslate
     THEN /\ CanTranslate(c)
          /\ \E context \in prepareContext(text, enableContext) :
               BuildInlinePopup(c, context)
          /\ dot' = dot
     ELSE /\ dot' = Some(text)
          /\ UNCHANGED <<prefs, calls, http, prefChanges, popup, wordbook, probe>>

\* onReaderTextSelection(event): the reader reports the selected text; an
\* empty selection is ignored; otherwise the selection is kept for the
\* shortcut and, with auto-translate on, the translation starts, else the
\* translate dot is put up for it in place of the previous one
OnReaderTextSelection(c, text, autoTranslate) ==
  LET selectedText == trim(text)
  IN /\ selection' = Some(text)
     /\ UNCHANGED <<enableContext, corner, plugin>>
     /\ IF selectedText = <<>>
        THEN UNCHANGED <<prefs, calls, http, prefChanges, lastSelection, popup,
                         wordbook, dot, probe>>
        ELSE /\ lastSelection' = Some(selectedText)
             /\ IF autoTranslate
                THEN /\ CanTranslate(c)
                     /\ \E context \in prepareContext(selectedText, enableContext) :
                          BuildInlinePopup(c, context)
                     /\ dot' = dot
                ELSE /\ dot' = Some(selectedText)
                     /\ UNCHANGED <<prefs, calls, http, prefChanges, popup, wordbook,
                                    probe>>

\* a click on the translate dot: the dot goes and the text it was put up
\* for is translated
ClickDot(c) ==
  /\ ~IsNull(dot)
  /\ CanTranslate(c)
  /\ dot' = NULL
  /\ \E context \in prepareContext(Val(dot), enableContext) : BuildInlinePopup(c, context)
  /\ UNCHANGED <<lastSelection, selection, enableContext, corner, plugin>>

\* the dot is taken away: the selection popup is gone, or a click elsewhere
RemoveDot ==
  /\ ~IsNull(dot)
  /\ dot' = NULL
  /\ UNCHANGED <<prefs, calls, http, prefChanges, lastSelection, popup, wordbook,
                 selection, enableContext, corner, plugin, probe>>

\* triggerTranslation() from the keyboard shortcut: the stored selection
\* is translated; without one nothing happens
TriggerTranslation(c) ==
  /\ ~IsNull(lastSelection)
  /\ CanTranslate(c)
  /\ \E context \in prepareContext(Val(lastSelection), enableContext) :
       BuildInlinePopup(c, context)
  /\ UNCHANGED <<lastSelection, selection, dot, enableContext, corner, plugin>>

\* the user switches page context on or off in the preferences
SetEnableContext(v) ==
  /\ enableContext # v
  /\ enableContext' = v
  /\ UNCHANGED <<prefs, calls, http, prefChanges, lastSelection, popup, wordbook,
                 selection, dot, corner, plugin, probe>>

\* the reader takes the container out of its selection popup, after which
\* container.parentNode is null
RemovePopup(c) ==
  /\ popup[c].attached
  /\ popup' = [popup EXCEPT ![c].attached = FALSE]
  /\ UNCHANGED <<prefs, calls, http, prefChanges, lastSelection, wordbook,
                 selection, dot, enableContext, corner, plugin, probe>>

\* a request settles; when that ends the translateText call performTranslation
\* awaits, performTranslation runs on with the result
PerformTranslationSettle(c, i, resp) ==
  /\ HttpSettle(c, i, resp)
  /\ IF calls[c].op = "translateText" /\ waiterOf(c, i) # {}
     THEN /\ popup' = [popup EXCEPT ![c] = performTranslationShown(@, calls'[c])]
          /\ wordbook' = performTranslationSaved(wordbook, calls'[c])
     ELSE UNCHANGED <<popup, wordbook>>
  /\ UNCHANGED <<lastSelection, selection, dot, enableContext, corner, plugin>>

\* responses of the provider as the UI tells them apart: a translation, a
\* failure that mentions an image, another failure
UIResponsesFor(api) ==
  { ResolveJson(200, Envelope(api, TXT_padded)),
    RejectStatus(400, <<"n", "o", " ">> \o STR_image),
    RejectTransport(<<"timeout">>) }

\* the reader at work: translations in slot 1, one after the other
NextUI ==
  \/ \E text \in Selections : \E autoTranslate \in BOOLEAN :
       OnReaderTextSelection(1, text, autoTranslate)
  \/ ClickDot(1)
  \/ RemoveDot
  \/ TriggerTranslation(1)
  \/ \E v \in BOOLEAN : SetEnableContext(v)
  \/ RemovePopup(1)
  \/ \E i \in 1..Len(http[1]) :
       \E resp \in UIResponsesFor(http[1][i].req.api) :
         PerformTranslationSettle(1, i, resp)

SpecUI == Init /\ [][NextUI]_vars

\* the preferences pane beside the reader: selections translated at once in
\* slot 1 while testConnection runs in slot 2
NextPane ==
  \/ \E text \in Selections : OnReaderTextSelection(1, text, TRUE)
  \/ TriggerTranslation(1)
  \/ RemovePopup(1)
  \/ TestConnection(2)
  \/ \E c \in {1, 2} : \E i \in 1..Len(http[c]) :
       \E resp \in UIResponsesFor(http[c][i].req.api) :
         PerformTranslationSettle(c, i, resp)

SpecPane == Init /\ [][NextPane]_vars

\* ------------------------------------------------------- corner popup
\* The popup position is one of the corners: showCornerPopup reuses the
\* element with the popup's id when there is one.  The popup stays up (no
\* click outside it) and page context stays on.

\* showCornerPopup: the element, new or reused, is cleared and shows
\* "Translating...", then performTranslation starts with it
CornerLoading(c) ==
  [shown |-> "loading", attached |-> TRUE, text |-> <<"Translating...">>, by |-> c]

\* performTranslation of translation c writes into the element when its
\* translateText call has settled and the element is in the document
cornerShown(elem, c, call) ==
  IF call.pc \in {"resolved", "rejected"} /\ elem.attached
  THEN [performTranslationShown(elem, call) EXCEPT !.by = c]
  ELSE elem

\* onReaderTextSelection(event) with auto-translate on and a corner
\* position: the selection is kept and showCornerPopup starts the
\* translation in the shared element
OnReaderTextSelectionCorner(c, text) ==
  LET selectedText == trim(text)
  IN /\ selectedText # <<>>
     /\ Idle(c)
     /\ selection' = Some(text)
     /\ lastSelection' = Some(selectedText)
     /\ \E context \in prepareContext(selectedText, enableContext) :
          StartTranslateText(c, context)
     /\ corner' = cornerShown(CornerLoading(c), c, calls'[c])
     /\ UNCHANGED <<popup, wordbook, dot, enableContext, plugin>>

\* a request settles; when that ends the translateText call performTranslation
\* awaits, performTranslation runs on with the result and the element
PerformTranslationCornerSettle(c, i, resp) ==
  /\ HttpSettle(c, i, resp)
  /\ IF waiterOf(c, i) # {}
     THEN /\ corner' = cornerShown(corner, c, calls'[c])
          /\ wordbook' = performTranslationSaved(wordbook, calls'[c])
     ELSE UNCHANGED <<corner, wordbook>>
  /\ UNCHANGED <<lastSelection, popup, selection, dot, enableContext, plugin>>

\* texts selected one after the other while translations are in flight
CornerSelections == {<<"r", "u", "n">>, <<"a", " ", "b">>}

NextCorner ==
  \/ \E c \in Calls : \E text \in CornerSelections : OnReaderTextSelectionCorner(c, text)
  \/ \E c \in Calls : \E i \in 1..Len(http[c]) :
       \E resp \in UIResponsesFor(http[c][i].req.api) :
         PerformTranslationCornerSettle(c, i, resp)

SpecCorner == Init /\ [][NextCorner]_vars

\* --------------------------------------------------- plugin life cycle
MaxInits == 2
MaxReaders == 1
MaxSelects == 2

\* the functions of cleanupFns run in order: each removes what it was
\* pushed for
RECURSIVE RunCleanups(_, _)
RunCleanups(p, fns) ==
  IF fns = <<>> THEN p
  ELSE RunCleanups(CASE Head(fns) = "keydown"  -> [p EXCEPT !.keydown = @ - 1]
                     [] Head(fns) = "observer" -> [p EXCEPT !.observers = @ - 1]
                     [] Head(fns) = "mouseup"  -> [p EXCEPT !.mouseup = @ - 1],
                   Tail(fns))

\* unregisterAll: every function of cleanupFns runs, the array is emptied,
\* the reader listener is unregistered; pending timers are left alone
unregisterAll(p) ==
  [RunCleanups(p, p.cleanupFns) EXCEPT !.cleanupFns = <<>>, !.readerListener = FALSE]

\* the callback of a tracker timer: installMouseUpTracker(reader) adds the
\* mouseup listeners and its cleanup is pushed, unless the reader is gone or
\* has no iframe window (installed = FALSE)
TrackerInstalled(p, installed) ==
  IF installed
  THEN [p EXCEPT !.mouseup = @ + 1, !.cleanupFns = Append(@, "mouseup")]
  ELSE p

\* plugin.init: registerReaderListeners, registerKeyboardShortcut,
\* registerMouseUpTracker with readers open reader tabs
PluginInit(readers) ==
  /\ ~plugin.running
  /\ plugin.inits < MaxInits
  /\ plugin' = [plugin EXCEPT !.running = TRUE,
                              !.inits = @ + 1,
                              !.readerListener = TRUE,
                              !.keydown = @ + 1,
                              !.timers500 = @ + readers,
                              !.observers = @ + 1,
                              !.cleanupFns = @ \o <<"keydown", "observer">>]
  /\ UNCHANGED <<prefs, calls, http, prefChanges, lastSelection, popup, wordbook,
                 selection, dot, enableContext, corner, probe>>

\* the Notifier tells a registered observer that a tab was selected: the
\* observer sets a 1000 ms timer
TabSelect ==
  /\ plugin.observers > 0
  /\ plugin.selects < MaxSelects
  /\ plugin' = [plugin EXCEPT !.selects = @ + 1, !.timers1000 = @ + plugin.observers]
  /\ UNCHANGED <<prefs, calls, http, prefChanges, lastSelection, popup, wordbook,
                 selection, dot, enableContext, corner, probe>>

\* a 500 ms timer of registerMouseUpTracker fires
ReaderTimerFires(installed) ==
  /\ plugin.timers500 > 0
  /\ plugin' = TrackerInstalled([plugin EXCEPT !.timers500 = @ - 1], installed)
  /\ UNCHANGED <<prefs, calls, http, prefChanges, lastSelection, popup, wordbook,
                 selection, dot, enableContext, corner, probe>>

\* a 1000 ms timer of the tab observer fires
TabTimerFires(installed) ==
  /\ plugin.timers1000 > 0
  /\ plugin' = TrackerInstalled([plugin EXCEPT !.timers1000 = @ - 1], installed)
  /\ UNCHANGED <<prefs, calls, http, prefChanges, lastSelection, popup, wordbook,
                 selection, dot, enableContext, corner, probe>>

\* plugin.shutdown
PluginShutdown ==
  /\ plugin.running
  /\ plugin' = [unregisterAll(plugin) EXCEPT !.running = FALSE]
  /\ UNCHANGED <<prefs, calls, http, prefChanges, lastSelection, popup, wordbook,
                 selection, dot, enableContext, corner, probe>>

NextPlugin ==
  \/ \E readers \in 0..MaxReaders : PluginInit(readers)
  \/ TabSelect
  \/ \E installed \in BOOLEAN : ReaderTimerFires(installed)
  \/ \E installed \in BOOLEAN : TabTimerFires(installed)
  \/ PluginShutdown

SpecPlugin == Init /\ [][NextPlugin]_vars

\* ------------------------------------------- pure functions on their own
\* probe holds the function applied (fn), its argument (arg, with the text
\* it stands for) and the results so far (outs)
MaxSlashes == 2
MaxApply == 2
MaxTextLen == 3

Slashes(k) == [i \in 1..k |-> "/"]

\* endpoints a user stores: a base URL or the full chat-completions URL,
\* with trailing slashes or without
EndpointBases == {<<"h", "/", "v", "1">>, <<"l", ":", "8", "/", "a", "p", "i">>}

EndpointInputs ==
  { [base |-> b, full |-> f, slashes |-> k,
     text |-> b \o (IF f THEN STR_chatCompletions ELSE <<>>) \o Slashes(k)] :
      b \in EndpointBases, f \in BOOLEAN, k \in 0..MaxSlashes }

\* screenshots as canvas.toDataURL gives them
ImageFormats == {<<"p", "n", "g">>, <<"j", "p", "e", "g">>}
Base64Samples == {<<"A", "A", "A", "A">>, <<"i", "V", "+", "/", "9", "=", "=">>}

ScreenshotInputs ==
  { [format |-> f, data |-> d, text |-> <<"data:", "image/">> \o f \o <<";base64,">> \o d] :
      f \in ImageFormats, d \in Base64Samples }

PromptInputs ==
  [targetLanguage : {DEFAULT_targetLanguage, <<"f", "r">>},
   singleWord : BOOLEAN, hasScreenshot : BOOLEAN]

TextChars == {"a", " ", "\t", "\n", "\r"}

TextInputs == UNION { [1..n -> TextChars] : n \in 0..MaxTextLen }

ProbeInputs ==
  { [fn |-> "normalizeEndpoint", arg |-> e, outs |-> <<>>] : e \in EndpointInputs }
  \cup { [fn |-> "buildBody", arg |-> u, outs |-> <<>>] : u \in ScreenshotInputs }
  \cup { [fn |-> "buildSystemPrompt", arg |-> a, outs |-> <<>>] : a \in PromptInputs }
  \cup { [fn |-> "isSingleWord", arg |-> t, outs |-> <<>>] : t \in TextInputs }

InitPure ==
  /\ prefs = UnsetStore
  /\ calls = [c \in Calls |-> IdleCall]
  /\ http = [c \in Calls |-> <<>>]
  /\ prefChanges = 0
  /\ lastSelection = NULL
  /\ popup = [c \in Calls |-> NoPopup]
  /\ wordbook = <<>>
  /\ selection = NULL
  /\ dot = NULL
  /\ enableContext = TRUE
  /\ corner = NoCorner
  /\ plugin = NotLoaded
  /\ probe \in ProbeInputs

ProbeOut(out) ==
  /\ probe' = [probe EXCEPT !.outs = Append(@, out)]
  /\ UNCHANGED <<prefs, calls, http, prefChanges, uiVars>>

\* callOpenAI normalizes the stored endpoint; applied again, it normalizes
\* the URL it gave, as when that URL is what the user stores
NormalizeEndpoint ==
  /\ probe.fn = "normalizeEndpoint"
  /\ Len(probe.outs) < MaxApply
  /\ ProbeOut(normalizeEndpoint(IF probe.outs = <<>> THEN probe.arg.text
                                ELSE probe.outs[Len(probe.outs)]))

BuildBedrockBody ==
  /\ probe.fn = "buildBody"
  /\ \A k \in 1..Len(probe.outs) : probe.outs[k].by # "bedrock"
  /\ ProbeOut([by |-> "bedrock",
               body |-> buildBedrockBody(TEST_systemPrompt, TEST_userText,
                                         Some(probe.arg.text))])

BuildOpenAIBody ==
  /\ probe.fn = "buildBody"
  /\ \A k \in 1..Len(probe.outs) : probe.outs[k].by # "openai"
  /\ ProbeOut([by |-> "openai",
               body |-> buildOpenAIBody(TEST_systemPrompt, TEST_userText,
                                        Some(probe.arg.text), DEFAULT_openaiModelId)])

BuildSystemPrompt ==
  /\ probe.fn = "buildSystemPrompt"
  /\ probe.outs = <<>>
  /\ ProbeOut(buildSystemPrompt(probe.arg.targetLanguage, probe.arg.singleWord,
                                probe.arg.hasScreenshot))

IsSingleWord ==
  /\ probe.fn = "isSingleWord"
  /\ probe.outs = <<>>
  /\ ProbeOut(isSingleWord(probe.arg))

NextPure ==
  \/ NormalizeEndpoint
  \/ BuildBedrockBody
  \/ BuildOpenAIBody
  \/ BuildSystemPrompt
  \/ IsSingleWord

SpecPure == InitPure /\ [][NextPure]_vars

\* =================================================================== claims
TranslateCalls == {c \in Calls : calls[c].op = "translateText"}

Settled(c, i) == i <= Len(http[c]) /\ http[c][i].state = "settled"

\* what callModel attempt i of invocation c came to, once its request settled
Fin(c, i) == callModelSettled(http[c][i].req.api, http[c][i].response)

Failed(c, i) == Settled(c, i) /\ ~Fin(c, i).ok

ImageAttached(c) == calls[c].attempts # <<>> /\ ~IsNull(calls[c].attempts[1].image)

\* the message contains "image" in some letter-casing
ContainsImageAnyCase(msg) == includes(toLowerCase(msg), STR_image)

\* C1: when the first attempt of translateText is made with an image and
\* fails with a message containing "image" (or "Image"), there is exactly
\* one further
\* callModel attempt, it has no image, and when it succeeds translateText
\* resolves with its (trimmed) result.
C1_FallbackOnce ==
  \A c \in TranslateCalls :
    (/\ ImageAttached(c) /\ Failed(c, 1)
     /\ \/ includes(Fin(c, 1).message, STR_image)
        \/ includes(Fin(c, 1).message, STR_Image))
    => /\ Len(calls[c].attempts) = 2
       /\ IsNull(calls[c].attempts[2].image)
       /\ Len(http[c]) <= 2
       /\ (Settled(c, 2) /\ Fin(c, 2).ok)
          => /\ calls[c].pc = "resolved"
             /\ calls[c].value = trim(Fin(c, 2).text)

C1_Witness ==
  \E c \in TranslateCalls :
    /\ ImageAttached(c) /\ Failed(c, 1)
    /\ includes(Fin(c, 1).message, STR_image)
    /\ Settled(c, 2) /\ Fin(c, 2).ok
    /\ calls[c].pc = "resolved"
    /\ calls[c].value = <<"h", "i">>

\* C2 as stated: the fallback is triggered exactly when an image was
\* attached and the first attempt's message contains "image" compared
\* case-insensitively.
C2_CaseInsensitiveTrigger ==
  \A c \in TranslateCalls :
    Failed(c, 1)
    => (Len(calls[c].attempts) = 2
        <=> (ImageAttached(c) /\ ContainsImageAnyCase(Fin(c, 1).message)))

\* C2 amended: the fallback is triggered exactly when an image was attached
\* and the first attempt's message contains "image" or "Image", compared
\* case-sensitively; a message that has the word only in another casing
\* ("IMAGE") does not trigger it.
C2_CaseSensitiveTrigger ==
  \A c \in TranslateCalls :
    Failed(c, 1)
    => (Len(calls[c].attempts) = 2
        <=> (/\ ImageAttached(c)
             /\ \/ includes(Fin(c, 1).message, STR_image)
                \/ includes(Fin(c, 1).message, STR_Image)))

C2_Witness ==
  \E c \in TranslateCalls :
    /\ ImageAttached(c) /\ Failed(c, 1)
    /\ includes(Fin(c, 1).message, STR_IMAGE)
    /\ Len(calls[c].attempts) = 1
    /\ calls[c].pc = "rejected"

C4_AtMostTwoRequests ==
  \A c \in TranslateCalls :
    /\ Len(http[c]) <= 2
    /\ Len(calls[c].attempts) <= 2
    /\ Failed(c, 2)
       => /\ calls[c].pc = "rejected"
          /\ calls[c].error = Err(Fin(c, 2).message, 2)

C4_Witness ==
  \E c \in TranslateCalls :
    /\ Failed(c, 2)
    /\ includes(Fin(c, 2).message, STR_image)
    /\ calls[c].pc = "rejected"
    /\ Len(http[c]) = 2

\* the value in force for a setting: the stored text without the blanks
\* around it, the default when nothing or only blanks are stored
Setting(st, key, defaultValue) ==
  LET v == st[key]
  IN IF IsNull(v) \/ trim(Val(v)) = <<>> THEN defaultValue ELSE trim(Val(v))

\* the target language translateText read when it was entered
LanguageOf(c) == Setting(calls[c].stores[1], "targetLanguage", DEFAULT_targetLanguage)

C6_AttemptsSequential ==
  \A c \in TranslateCalls :
    /\ Cardinality({i \in 1..Len(http[c]) : http[c][i].state = "pending"}) <= 1
    /\ \A i \in 2..Len(http[c]) : Failed(c, i - 1)

C6_Witness ==
  \E c \in TranslateCalls : \E d \in Calls \ {c} :
    /\ Len(http[c]) = 2
    /\ Failed(c, 1)
    /\ http[c][2].state = "pending"
    /\ calls[d].pc = "await"

ActiveProvider(st) ==
  IF Setting(st, "provider", STR_bedrock) = STR_openai THEN "openai" ELSE "bedrock"

ActiveKey(st) ==
  IF ActiveProvider(st) = "openai" THEN Setting(st, "openai.apiKey", <<>>)
  ELSE Setting(st, "bedrock.apiKey", <<>>)

Invoked == {c \in Calls : calls[c].op # "none"}

BedrockUrl(st) ==
  <<"https:", "/", "/", "bedrock-runtime.">>
  \o Setting(st, "bedrock.region", DEFAULT_region)
  \o <<".amazonaws.com", "/", "model", "/">>
  \o encodeURIComponent(Setting(st, "bedrock.modelId", DEFAULT_bedrockModelId))
  \o <<"/", "converse">>

IsBedrockBody(body) == DOMAIN body = {"system", "messages", "inferenceConfig"}
IsOpenAIBody(body) == DOMAIN body = {"model", "messages", "max_tokens", "temperature"}

\* request req goes to the provider that store st makes active, in that
\* provider's format, with that provider's key and region or endpoint
RoutedBy(req, st) ==
  IF ActiveProvider(st) = "openai"
  THEN /\ req.api = "openai"
       /\ IsOpenAIBody(req.body)
       /\ req.url = normalizeEndpoint(Setting(st, "openai.endpoint", DEFAULT_endpoint))
       /\ req.authorization = <<"Bearer ">> \o Setting(st, "openai.apiKey", <<>>)
  ELSE /\ req.api = "bedrock"
       /\ IsBedrockBody(req.body)
       /\ req.url = BedrockUrl(st)
       /\ req.authorization = <<"Bearer ">> \o Setting(st, "bedrock.apiKey", <<>>)

\* C8: every request callModel posts goes to the provider that is active
\* when callModel runs: a Bedrock Converse body to the Bedrock URL with the
\* Bedrock key and region, or an OpenAI body to the OpenAI endpoint with the
\* OpenAI key, never a mixture.
C8_NoCrossTalk ==
  \A c \in Invoked : \A i \in 1..Len(http[c]) :
    /\ i <= Len(calls[c].stores)
    /\ RoutedBy(http[c][i].req, calls[c].stores[i])

C8_Witness ==
  \E c \in TranslateCalls :
    /\ Len(http[c]) = 2
    /\ http[c][1].req.api = "openai"
    /\ http[c][2].req.api = "bedrock"
    /\ IsBedrockBody(http[c][2].req.body)
    /\ http[c][2].req.authorization = <<"Bearer ", "k", "b">>

\* the store invocation c ran with the k-th time it ran
StoreAt(c, k) == IF k <= Len(calls[c].stores) THEN calls[c].stores[k] ELSE prefs

\* invocation c computed from its own input, the settings it read and the
\* responses to its own requests: entered, then continued with the response
\* to its k-th request for as long as that request has settled
OwnEntry(c) ==
  IF calls[c].op = "translateText"
  THEN translateTextEntry(StoreAt(c, 1), calls[c].input)
  ELSE testConnectionEntry(StoreAt(c, 1))

OwnStep(c, r, k) ==
  IF r.state = "await" /\ Settled(c, k)
  THEN IF calls[c].op = "translateText"
       THEN translateTextSettled(StoreAt(c, k + 1),
                                 translateTextLocals(StoreAt(c, 1), calls[c].input),
                                 r.stage, r.attempts, Fin(c, k))
       ELSE testConnectionSettled(r.attempts, Fin(c, k))
  ELSE r

OwnOutcome(c) == OwnStep(c, OwnStep(c, OwnEntry(c), 1), 2)

\* C9: whatever the interleaving of the invocations in flight, the state
\* and outcome of each is the one its own input, the settings it read and
\* the responses to its own requests determine; no response is delivered to
\* another invocation.
C9_NoInterference ==
  \A c \in Invoked :
    LET o == OwnOutcome(c)
    IN /\ calls[c].pc = o.state
       /\ calls[c].value = o.value
       /\ calls[c].error = o.error
       /\ calls[c].attempts = o.attempts

C9_Witness ==
  \E c \in TranslateCalls : \E d \in TranslateCalls :
    /\ c < d
    /\ calls[d].pc = "resolved"
    /\ calls[c].pc = "await"
    /\ calls[c].input # calls[d].input
    /\ Len(http[c]) = 2

\* the system prompt a request body carries
SystemPromptIn(req) ==
  IF req.api = "openai" THEN req.body.messages[1].content
  ELSE req.body.system[1].text

\* the first request of invocation c is built from store st
FirstRequestFrom(c, st) ==
  /\ Len(http[c]) >= 1
  /\ RoutedBy(http[c][1].req, st)
  /\ ActiveProvider(st) = "openai"
     => http[c][1].req.body.model = Setting(st, "openai.modelId", DEFAULT_openaiModelId)
  /\ calls[c].op = "translateText"
     => SystemPromptIn(http[c][1].req) =
          buildSystemPrompt(Setting(st, "targetLanguage", DEFAULT_targetLanguage),
                            isSingleWord(calls[c].input.text),
                            truthy(calls[c].input.pageScreenshot))

\* C10: configuration is not cached: the request of a call is built from
\* the settings as they are when the call is made, also when they were
\* changed since the call before it.
C10_ConfigNotCached ==
  \A c \in Invoked :
    ActiveKey(calls[c].stores[1]) # <<>> => FirstRequestFrom(c, calls[c].stores[1])

C10_Witness ==
  \E c \in Invoked :
    /\ ~IsNull(calls[c].prev)
    /\ Val(calls[c].prev) # calls[c].stores[1]
    /\ ActiveKey(Val(calls[c].prev)) # <<>>
    /\ FirstRequestFrom(c, calls[c].stores[1])
    /\ ~FirstRequestFrom(c, Val(calls[c].prev))

\* C11 as stated: each callModel invocation resolves the configuration
\* (getConfig) exactly once, and the request it posts is the one that
\* configuration gives.
C11_ConfigResolvedOnce ==
  \A c \in Invoked : \A k \in 1..Len(calls[c].attempts) :
    /\ calls[c].attempts[k].configReads = 1
    /\ calls[c].attempts[k].issued => RoutedBy(http[c][k].req, StoreAt(c, k))

\* the response to request i of invocation c
ResponseTo(c, i) == http[c][i].response

\* a response with a success status (2xx)
SuccessStatus(resp) == resp.how = "resolve" /\ resp.status >= 200 /\ resp.status < 300

\* the body is JSON in the envelope of the provider: output.message.content
\* (Bedrock), choices[0].message.content (OpenAI)
MatchesEnvelope(api, resp) ==
  /\ ~IsNull(resp.json)
  /\ IF api = "openai" THEN ~IsNull(Val(resp.json).choices)
     ELSE ~IsNull(Val(resp.json).output)

ProviderName(api) == IF api = "openai" THEN "OpenAI" ELSE "Bedrock"

\* C12 as stated: a success-status response whose body is not in the
\* provider's envelope makes the call fail with a response-shape error that
\* carries the whole serialized response, and translateText makes no further
\* attempt after it, with or without an image.
C12_ShapeErrorFatal ==
  \A c \in Invoked : \A i \in 1..Len(http[c]) :
    (/\ Settled(c, i)
     /\ SuccessStatus(ResponseTo(c, i))
     /\ ~MatchesEnvelope(http[c][i].req.api, ResponseTo(c, i)))
    => /\ Fin(c, i) =
            Thrown(<<"Unexpected " \o ProviderName(http[c][i].req.api) \o " response: ">>
                   \o ResponseTo(c, i).responseText)
       /\ Len(http[c]) = i
       /\ Len(calls[c].attempts) = i
       /\ calls[c].pc = "rejected"
       /\ calls[c].error = Err(Fin(c, i).message, i)

\* the response came with an HTTP status, whether the primitive resolved
\* or rejected with it
HasStatus(resp) == resp.how \in {"resolve", "rejectStatus"}

First500(text) == IF Len(text) <= 500 THEN text ELSE SubSeq(text, 1, 500)

\* the text of the envelope: the text parts joined by newlines (Bedrock),
\* the message content (OpenAI)
ExtractedText(api, resp) ==
  IF api = "openai" THEN Val(Val(resp.json).choices)
  ELSE join(partTexts(Val(Val(resp.json).output)), <<"\n">>)

\* C13 as stated: the callers raise an HTTP error with the status code and
\* the first 500 characters of the body for every non-2xx status and only
\* for those; a 2xx response whose body is in the envelope yields the
\* extracted text.
C13_HttpErrorForNon2xxOnly ==
  \A c \in Invoked : \A i \in 1..Len(http[c]) :
    Settled(c, i)
    => LET resp == ResponseTo(c, i)
           api == http[c][i].req.api
       IN /\ (HasStatus(resp) /\ ~SuccessStatus(resp))
             => Fin(c, i) =
                  Thrown(<<ProviderName(api), " API error (", ToString(resp.status), "): ">>
                         \o First500(resp.responseText))
          /\ (SuccessStatus(resp) /\ MatchesEnvelope(api, resp))
             => Fin(c, i) = Returned(ExtractedText(api, resp))

\* C15 as stated: every string the provider layer returns to its callers
\* (the result of callModel, and so of translateText and of testConnection)
\* has no leading and no trailing whitespace.
C15_ResultsTrimmed ==
  \A c \in Invoked :
    /\ \A i \in 1..Len(http[c]) :
         (Settled(c, i) /\ Fin(c, i).ok) => Fin(c, i).text = trim(Fin(c, i).text)
    /\ calls[c].pc = "resolved" => calls[c].value = trim(calls[c].value)

\* number of places where sub occurs in s
Occurrences(s, sub) ==
  Cardinality({i \in 1..(Len(s) - Len(sub) + 1) : SubSeq(s, i, i + Len(sub) - 1) = sub})

\* C16: endpoint normalization is idempotent, and a base URL, the base URL
\* with trailing slashes and the full chat-completions URL with or without
\* trailing slashes all normalize to the base URL followed by exactly one
\* "/chat/completions".
C16_NormalizationIdempotent ==
  probe.fn = "normalizeEndpoint"
  => \A k \in 1..Len(probe.outs) :
       /\ probe.outs[k] = probe.arg.base \o STR_chatCompletions
       /\ probe.outs[k] = probe.outs[1]
       /\ Occurrences(probe.outs[k], STR_chatCompletions) = 1
       /\ probe.outs[k][Len(probe.outs[k])] # "/"

C16_Witness ==
  /\ probe.fn = "normalizeEndpoint"
  /\ probe.arg.full /\ probe.arg.slashes = 2
  /\ Len(probe.outs) = 2
  /\ probe.outs[2] = <<"h", "/", "v", "1">> \o STR_chatCompletions

\* the parts of the user message of a body
UserContent(by, body) ==
  IF by = "openai" THEN body.messages[2].content ELSE body.messages[1].content

\* C17: for an image "data:image/<fmt>;base64,<data>" the Bedrock builder
\* emits an image part with format <fmt> and bytes <data>, the data-URI
\* prefix removed, and the OpenAI builder puts the whole string unmodified
\* into image_url.url.
C17_ImageEncodings ==
  probe.fn = "buildBody"
  => \A k \in 1..Len(probe.outs) :
       LET content == UserContent(probe.outs[k].by, probe.outs[k].body)
       IN /\ Len(content) = 2
          /\ probe.outs[k].by = "bedrock"
             => /\ content[2].image.format = probe.arg.format
                /\ content[2].image.source.bytes = probe.arg.data
          /\ probe.outs[k].by = "openai"
             => /\ content[2].type = "image_url"
                /\ content[2].image_url.url = probe.arg.text

C17_Witness ==
  /\ probe.fn = "buildBody"
  /\ probe.arg.text = <<"data:", "image/", "p", "n", "g", ";base64,", "A", "A", "A", "A">>
  /\ Len(probe.outs) = 2
  /\ \E k \in 1..2 :
       /\ probe.outs[k].by = "bedrock"
       /\ UserContent("bedrock", probe.outs[k].body)[2].image =
            [format |-> <<"p", "n", "g">>, source |-> [bytes |-> <<"A", "A", "A", "A">>]]

\* the prompt has a contextual annotation line
HasAnnotationLine(prompt) == \E i \in 1..Len(prompt) : prompt[i] = "{pushpin}"

\* C18 as stated: buildSystemPrompt gives one of four distinct templates
\* chosen by (isSingleWord, hasImage); the annotation line is in both
\* image-context templates and in neither of the no-image templates.
C18_FourTemplates ==
  (probe.fn = "buildSystemPrompt" /\ probe.outs # <<>>)
  => /\ HasAnnotationLine(probe.outs[1]) <=> probe.arg.hasScreenshot
     /\ \A w \in BOOLEAN : \A h \in BOOLEAN :
          (w # probe.arg.singleWord \/ h # probe.arg.hasScreenshot)
          => buildSystemPrompt(probe.arg.targetLanguage, w, h) # probe.outs[1]

\* text has a space, a tab or a newline between its first and its last
\* character that is not whitespace
InnerSeparator(text) ==
  \E i \in 1..Len(text) :
    /\ text[i] \in {" ", "\t", "\n"}
    /\ \E j \in 1..(i - 1) : text[j] \notin {" ", "\t", "\n", "\r"}
    /\ \E j \in (i + 1)..Len(text) : text[j] \notin {" ", "\t", "\n", "\r"}

\* C19: isSingleWord(text) is true exactly when the text, trimmed, has no
\* space, tab or newline; whitespace at its ends makes no passage of it.
C19_SingleWordAfterTrim ==
  (probe.fn = "isSingleWord" /\ probe.outs # <<>>)
  => probe.outs[1] = ~InnerSeparator(probe.arg)

C19_Witness ==
  /\ probe.fn = "isSingleWord"
  /\ probe.arg = <<" ", "a", "\n">>
  /\ probe.outs = <<TRUE>>

\* the user text translateText forms of a selected text
PrefixedText(text) ==
  (IF InnerSeparator(text) THEN <<"Text: ">> ELSE <<"Word: ">>) \o text

\* C20: a translateText call without a screenshot sends the no-image
\* template, the user text "Word: " + text for a single word and
\* "Text: " + text otherwise, and a user content of exactly one text entry
\* and no image entry.
C20_NoScreenshotRequest ==
  \A c \in TranslateCalls :
    IsNull(calls[c].input.pageScreenshot)
    => /\ Len(http[c]) <= 1
       /\ \A i \in 1..Len(http[c]) :
            LET req == http[c][i].req
                content == UserContent(req.api, req.body)
            IN /\ SystemPromptIn(req) =
                    buildSystemPrompt(LanguageOf(c),
                                      ~InnerSeparator(calls[c].input.text), FALSE)
               /\ ~HasAnnotationLine(SystemPromptIn(req))
               /\ ~includes(SystemPromptIn(req), CONTEXT_NOTE)
               /\ content =
                    (IF req.api = "openai"
                     THEN <<[type |-> "text", text |-> PrefixedText(calls[c].input.text)]>>
                     ELSE <<[text |-> PrefixedText(calls[c].input.text)]>>)

C20_Witness ==
  \E c \in TranslateCalls :
    /\ calls[c].input = TranslationInput(<<"r", "u", "n">>, NULL, NULL)
    /\ Len(http[c]) = 1
    /\ http[c][1].req.api = "openai"
    /\ UserContent("openai", http[c][1].req.body) =
         <<[type |-> "text", text |-> <<"Word: ", "r", "u", "n">>]>>
    /\ LanguageOf(c) = DEFAULT_targetLanguage

\* the slots in which testConnection runs or has run
TestInvocations == {c \in Calls : calls[c].op = "testConnection"}

\* a step in which a testConnection invocation starts or runs on
TestConnectionSteps(c) ==
  /\ calls'[c].op = "testConnection"
  /\ calls'[c] # calls[c] \/ http'[c] # http[c]

\* what a testConnection invocation may have done: at most one callModel,
\* with the diagnostic prompt and no image, and at most one request
DiagnosticOnly(c) ==
  /\ Len(calls[c].attempts) <= 1
  /\ Len(http[c]) <= 1
  /\ \A k \in 1..Len(calls[c].attempts) :
       /\ calls[c].attempts[k].systemPrompt = TEST_systemPrompt
       /\ calls[c].attempts[k].userText = TEST_userText
       /\ IsNull(calls[c].attempts[k].image)
  /\ \A i \in 1..Len(http[c]) :
       /\ SystemPromptIn(http[c][i].req) = TEST_systemPrompt
       /\ Len(UserContent(http[c][i].req.api, http[c][i].req.body)) = 1

\* C14: testConnection makes a single callModel call with the fixed
\* diagnostic prompt and a null image, so it issues at most one HTTP
\* request and never enters the image fallback, whatever the error; and
\* the steps of a testConnection invocation leave the translation state
\* alone: the wordbook, the stored last selection and the popups.
C14_TestConnectionIsolated ==
  /\ [](\A c \in TestInvocations : DiagnosticOnly(c))
  /\ [][\A c \in Calls : TestConnectionSteps(c) => UNCHANGED uiVars]_vars

\* testConnection has failed with an error that mentions an image, after
\* one request, while a translation is shown, saved and its selection kept
C14_Witness ==
  /\ calls[2].op = "testConnection" /\ calls[2].pc = "rejected"
  /\ isImageError(messageOf(calls[2].error.message))
  /\ Len(http[2]) = 1
  /\ popup[1].shown = "result" /\ wordbook # <<>> /\ ~IsNull(lastSelection)

\* where a translateText call is on the path Initial -> Fallback attempt ->
\* Done: "Initial" while the first attempt is awaited, "Fallback" while the
\* attempt without the image is awaited, "Done" once resolved or rejected
Phase(call) ==
  IF call.op # "translateText" THEN "none"
  ELSE IF call.pc \in {"resolved", "rejected"} THEN "Done"
  ELSE IF call.stage = "fallback" THEN "Fallback"
  ELSE "Initial"

\* slot c is entered by a new invocation in this step: its code has run
\* once
Entered(c) == calls'[c] # calls[c] /\ Len(calls'[c].stores) = 1

\* the moves of one call along the path
PathMoves ==
  { <<"Initial", "Initial">>, <<"Initial", "Fallback">>, <<"Initial", "Done">>,
    <<"Fallback", "Fallback">>, <<"Fallback", "Done">>,
    <<"Done", "Done">>, <<"none", "none">> }

\* a call on the path has made one attempt, and two once in Fallback; a
\* call in Fallback waits for its second request and does nothing else
PathAttempts(call) ==
  /\ Phase(call) = "Initial" => Len(call.attempts) = 1 /\ call.awaiting = 1
  /\ Phase(call) = "Fallback" => Len(call.attempts) = 2 /\ call.awaiting = 2
  /\ Phase(call) = "Done" => Len(call.attempts) <= 2

\* C21: every translateText call follows Initial -> Done or Initial ->
\* Fallback attempt -> Done and no other path (no return to Initial, no
\* second Fallback); when every request issued settles in the end, every
\* call reaches Done, resolved or rejected.
C21_PathsAndTermination ==
  /\ [][\A c \in Calls :
          /\ PathAttempts(calls'[c])
          /\ IF Entered(c)
             THEN calls'[c].op = "translateText"
                  => Phase(calls'[c]) \in {"Initial", "Done"}
             ELSE <<Phase(calls[c]), Phase(calls'[c])>> \in PathMoves]_vars
  /\ \A c \in Calls :
       (Phase(calls[c]) \in {"Initial", "Fallback"}) ~> (Phase(calls[c]) = "Done")

\* a call is Done after its attempt without the image
C21_Witness ==
  /\ Phase(calls[1]) = "Done" /\ calls[1].stage = "fallback"
  /\ Len(calls[1].attempts) = 2 /\ Len(http[1]) = 2

\* the texts the UI holds for translation: of the calls it made, of the
\* stored last selection, of the translate dot
HeldTexts ==
  {calls[c].input.text : c \in TranslateCalls}
    \cup (IF IsNull(lastSelection) THEN {} ELSE {Val(lastSelection)})
    \cup (IF IsNull(dot) THEN {} ELSE {Val(dot)})

\* the reader reports a selection that is empty or whitespace only
BlankSelectionStep ==
  /\ selection' # selection
  /\ ~IsNull(selection') /\ trim(Val(selection')) = <<>>

\* C22: every TranslationInput the UI handlers pass to translateText
\* (auto-translate on selection, click on the translate dot, keyboard
\* shortcut) has a text that is non-empty after trimming; a selection event
\* whose text is empty or whitespace-only starts no translation and does
\* not replace the stored last selection.
C22_TextNonEmpty ==
  /\ [](\A text \in HeldTexts : trim(text) # <<>>)
  /\ [][BlankSelectionStep => UNCHANGED <<calls, http, popup, lastSelection, dot>>]_vars

\* a blank selection was reported after a translation was started for the
\* selection before it, which is still the stored one
C22_Witness ==
  /\ ~IsNull(selection) /\ trim(Val(selection)) = <<>>
  /\ ~IsNull(lastSelection)
  /\ calls[1].op = "translateText" /\ calls[1].input.text = Val(lastSelection)

\* the translateText call of slot c resolves in this step
TranslationResolves(c) ==
  /\ calls[c].op = "translateText" /\ calls[c].pc = "await"
  /\ calls'[c].pc = "resolved"

\* the entries of book whose word is text, compared case-insensitively
EntriesOf(book, text) ==
  {k \in 1..Len(book) : toLowerCase(book[k].word) = toLowerCase(text)}

\* book2 is book after one more successful translation of text: the entry
\* of the text counts one more, or a new entry with count 1 was added when
\* there was none; the other entries are as before
CountedOnce(book, book2, text) ==
  /\ \A k \in 1..Len(book) :
       /\ book2[k].word = book[k].word
       /\ book2[k].queryCount =
            book[k].queryCount + (IF k \in EntriesOf(book, text) THEN 1 ELSE 0)
  /\ IF EntriesOf(book, text) # {}
     THEN Len(book2) = Len(book)
     ELSE /\ Len(book2) = Len(book) + 1
          /\ EntriesOf(book2, text) = {Len(book2)}
          /\ book2[Len(book2)].queryCount = 1

\* C23: after any sequence of successful translations the wordbook holds
\* an entry for every translated text, whose queryCount is the number of
\* successful translations of that text, texts compared
\* case-insensitively: each successful translation adds one to the count
\* of the one entry of its text, or creates that entry with count 1, and
\* nothing else changes the counts, so no text ever has two entries.
C23_QueryCounts ==
  /\ [](\A k \in 1..Len(wordbook) : EntriesOf(wordbook, wordbook[k].word) = {k})
  /\ [][/\ \A c \in Calls :
            TranslationResolves(c) => CountedOnce(wordbook, wordbook', calls[c].input.text)
        /\ (\A c \in Calls : ~TranslationResolves(c)) => wordbook' = wordbook]_vars

\* "run" was translated, then "Run": one entry, counted twice
C23_Witness ==
  /\ Len(wordbook) = 1 /\ wordbook[1].queryCount = 2
  /\ wordbook[1].word = <<"r", "u", "n">>
  /\ calls[1].pc = "resolved" /\ calls[1].input.text = <<"R", "u", "n">>

\* request req carries an image entry beside the text entry
CarriesImage(req) == Len(UserContent(req.api, req.body)) > 1

\* C24: the image is attached to the model call only when page context is
\* enabled and a screenshot is present: a translation started while the
\* enableContext setting is false gets no screenshot, and a translation
\* without a screenshot sends no image in any request and never enters the
\* image fallback.
C24_ImageOnlyWithContext ==
  /\ [][\A c \in Calls :
          Entered(c) /\ calls'[c].op = "translateText" /\ ~enableContext
          => IsNull(calls'[c].input.pageScreenshot)]_vars
  /\ [](\A c \in TranslateCalls :
          IsNull(calls[c].input.pageScreenshot)
          => /\ \A i \in 1..Len(http[c]) : ~CarriesImage(http[c][i].req)
             /\ \A k \in 1..Len(calls[c].attempts) : IsNull(calls[c].attempts[k].image)
             /\ Len(calls[c].attempts) <= 1 /\ calls[c].stage # "fallback")

\* with page context off a translation failed with an error that mentions
\* an image, after its one request without image
C24_Witness ==
  /\ ~enableContext
  /\ calls[1].op = "translateText" /\ calls[1].pc = "rejected"
  /\ IsNull(calls[1].input.pageScreenshot)
  /\ Len(http[1]) = 1 /\ ~CarriesImage(http[1][1].req)
  /\ isImageError(messageOf(calls[1].error.message))

\* the translation started last
LatestTranslation ==
  CHOOSE c \in TranslateCalls : \A d \in TranslateCalls : d <= c

\* C25 as stated: with a corner popup position, once the translation
\* started last has its result or error, the shared popup element shows it,
\* whatever the order the responses arrive in; a late response of an
\* earlier translation never overwrites it.
C25_LatestShown ==
  TranslateCalls # {} /\ calls[LatestTranslation].pc \in {"resolved", "rejected"}
  => corner.by = LatestTranslation

\* listeners and observers the plugin has registered and not removed
Registered ==
  (IF plugin.readerListener THEN 1 ELSE 0)
  + plugin.keydown + plugin.observers + plugin.mouseup

\* C26 as stated: after plugin shutdown() no listener or observer the plugin
\* installed remains registered, whatever the order of init, tab selections,
\* tracker timers and shutdown; a timer firing after shutdown installs none.
C26_NothingLeftAfterShutdown ==
  plugin.inits > 0 /\ ~plugin.running => Registered = 0

\* provider, endpoint or region, model id and key a request goes out with
\* (the Bedrock model id is part of the URL, the OpenAI one of the body)
TargetOf(req) ==
  <<req.api, req.url, req.authorization,
    IF req.api = "openai" THEN req.body.model ELSE <<>>>>

\* C27 as stated: both attempts of one translateText call go to the same
\* provider with the same model id, key and endpoint or region, also when
\* the settings are changed while the first request is in flight.
C27_SameTargetBothAttempts ==
  \A c \in TranslateCalls :
    Len(http[c]) = 2 => TargetOf(http[c][1].req) = TargetOf(http[c][2].req)

\* translateText chose the image-context prompt for invocation c
ImagePromptSent(c) ==
  /\ Len(http[c]) >= 1
  /\ SystemPromptIn(http[c][1].req) =
       buildSystemPrompt(LanguageOf(c), isSingleWord(calls[c].input.text), TRUE)

C29_StoredFlagIsClassification ==
  \A i \in 1..Len(wordbook) :
    wordbook[i].isSingleWord = isSingleWord(wordbook[i].word)

\* the translateText call of slot c rejects in this step
TranslationRejects(c) ==
  /\ calls[c].op = "translateText" /\ calls[c].pc = "await"
  /\ calls'[c].pc = "rejected"

\* C30: a translation whose translateText call rejects writes nothing to
\* the wordbook; one whose call resolves is saved exactly once (one more
\* query counted, the entry of its text holds the result), also when its
\* popup container was removed before the result arrived, in which case the
\* result is saved and the container is left as it was; nothing else writes
\* to the wordbook.
C30_SavedOnceWhenResolved ==
  [][\A c \in Calls :
       /\ TranslationRejects(c) => wordbook' = wordbook
       /\ TranslationResolves(c)
          => /\ SumCounts(wordbook') = SumCounts(wordbook) + 1
             /\ \E k \in EntriesOf(wordbook', calls[c].input.text) :
                  wordbook'[k].translation = calls'[c].value
             /\ ~popup[c].attached => popup'[c] = popup[c]
             /\ popup[c].attached => popup'[c].shown = "result"
       /\ wordbook' # wordbook => \E d \in Calls : TranslationResolves(d)]_vars

\* the container of translation 1 was removed while its request was in
\* flight: the result is in the wordbook and the container still shows
\* "Translating..."
C30_Witness ==
  /\ calls[1].op = "translateText" /\ calls[1].pc = "resolved"
  /\ ~popup[1].attached /\ popup[1].shown = "loading"
  /\ \E k \in EntriesOf(wordbook, calls[1].input.text) :
       wordbook[k].translation = calls[1].value

====
